---- MODULE Spec2Model ----
\* Run-length codec of rle.py (escaper, encoder, structured decoder, legacy
\* decoder, classifier, interactive shell) and the input guard of Week6/bmi.py.
\* Text is a sequence of one-character strings; indices i, j, idx are the
\* zero-based indices of the Python code, so s[i + 1] is Python's s[i].
EXTENDS Integers, Sequences, FiniteSets, TLC

VARIABLES
    op,       \* the operation called: encode_rle, decode_rle, decode_legacy_rle,
              \* roundtrip (decode_rle of encode_rle), main, calculate_bmi
    arg,      \* its text argument (raw, encoded, s; for main the line read)
    called,   \* the function whose body runs (for main, the branch taken)
    pc,       \* idle, loop (in the while loop), done (returned), err (raised),
              \* printed (main has printed)
    s,        \* the text scanned: payload in decode_rle, s in decode_legacy_rle
    i,        \* the read index i, zero-based
    out,      \* out_chars / out, joined
    result,   \* the string returned; empty while nothing is returned
    err,      \* the kind of the ValueError raised, "none" for none
    printed,  \* what main has printed
    measure,  \* <<weight, height>> of calculate_bmi
    bmi       \* <<value in hundredths>> returned by calculate_bmi, <<>> for none

vars == <<op, arg, called, pc, s, i, out, result, err, printed, measure, bmi>>

\* ---------------------------------------------------------------- bounds
MaxLen == 4        \* longest arbitrary text handed to an operation
MaxRuns == 2       \* most runs in a text built from runs
MaxRunLen == 11    \* longest run in a text built from runs
MaxMeasure == 3    \* largest |weight|, |height| handed to calculate_bmi

\* ------------------------------------------------------------ characters
Letters == {"A", "B"}
Digits == {"0", "1", "2", "3", "4", "5", "6", "7", "8", "9"}
Alphabet == Letters \cup {"#", "0", "1", "2"}
RunChars == {"A", "#", "0", "1"}

ENCODED_PREFIX == <<"#", "#", "0", "0">>

isdigit(ch) == ch \in Digits

DigitValue(ch) ==
    CASE ch = "0" -> 0 [] ch = "1" -> 1 [] ch = "2" -> 2 [] ch = "3" -> 3
      [] ch = "4" -> 4 [] ch = "5" -> 5 [] ch = "6" -> 6 [] ch = "7" -> 7
      [] ch = "8" -> 8 [] ch = "9" -> 9

DigitChar(n) ==
    CASE n = 0 -> "0" [] n = 1 -> "1" [] n = 2 -> "2" [] n = 3 -> "3"
      [] n = 4 -> "4" [] n = 5 -> "5" [] n = 6 -> "6" [] n = 7 -> "7"
      [] n = 8 -> "8" [] n = 9 -> "9"

\* str(count) for a count >= 0: the decimal digits, no leading zero.
RECURSIVE str(_)
str(n) == IF n < 10 THEN <<DigitChar(n)>>
          ELSE str(n \div 10) \o <<DigitChar(n % 10)>>

\* int(count_str) for a non-empty string of decimal digits.
RECURSIVE int(_)
int(ds) == IF Len(ds) = 0 THEN 0
           ELSE int(SubSeq(ds, 1, Len(ds) - 1)) * 10 + DigitValue(ds[Len(ds)])

\* literal * count
Repeat(ch, n) == [k \in 1..n |-> ch]

startswith(text, prefix) ==
    /\ Len(text) >= Len(prefix)
    /\ SubSeq(text, 1, Len(prefix)) = prefix

\* any(ch.isdigit() for ch in text)
AnyDigit(text) == \E k \in 1..Len(text) : isdigit(text[k])

\* str.strip() on text whose only whitespace is the blank.
RECURSIVE lstrip(_)
lstrip(text) == IF Len(text) > 0 /\ text[1] = " " THEN lstrip(Tail(text)) ELSE text

RECURSIVE rstrip(_)
rstrip(text) == IF Len(text) > 0 /\ text[Len(text)] = " "
                THEN rstrip(SubSeq(text, 1, Len(text) - 1)) ELSE text

strip(text) == rstrip(lstrip(text))

\* ---------------------------------------------------------------- escaper
\* Variant: digits pass through unescaped.
escape_digits_bare(ch) ==
    IF ch = "#" THEN <<"#", "#">> ELSE <<ch>>

escape_literal_char(ch) ==
    IF ch = "#" THEN <<"#", "#">>
    ELSE IF isdigit(ch) THEN <<"#", ch>>
    ELSE <<ch>>

\* ---------------------------------------------------------------- encoder
\* Variant: the count is written for every run, also a run of one.
flush_run_always_count(prev, count) ==
    escape_literal_char(prev) \o str(count)

\* The flush of one run: the escaped character, then the count if count > 1.
flush_run(prev, count) ==
    escape_literal_char(prev) \o (IF count > 1 THEN str(count) ELSE <<>>)

\* The for loop of encode_rle from index k (zero-based) on, then the final flush.
RECURSIVE encode_loop(_, _, _, _, _)
encode_loop(raw, k, prev, count, out_parts) ==
    IF k >= Len(raw) THEN out_parts \o flush_run(prev, count)
    ELSE IF raw[k + 1] = prev
         THEN encode_loop(raw, k + 1, prev, count + 1, out_parts)
         ELSE encode_loop(raw, k + 1, raw[k + 1], 1, out_parts \o flush_run(prev, count))

\* Variant: the empty text is returned as it is, without the prefix.
encode_rle_bare_empty(raw) ==
    IF raw = <<>> THEN <<>>
    ELSE encode_loop(raw, 1, raw[1], 1, ENCODED_PREFIX)

encode_rle(raw) ==
    IF raw = <<>> THEN ENCODED_PREFIX
    ELSE encode_loop(raw, 1, raw[1], 1, ENCODED_PREFIX)

\* ------------------------------------------------------------- classifier
is_probably_encoded(user_input) ==
    IF startswith(user_input, ENCODED_PREFIX) THEN TRUE
    ELSE AnyDigit(user_input)

\* ---------------------------------------------------------------- decoder
\* Variant: a '#' that ends the text is read as a literal '#'.
unescape_one_lone_hash(text, idx) ==
    IF idx >= Len(text)
    THEN [error |-> "unexpected end", literal |-> "", next |-> idx]
    ELSE LET ch == text[idx + 1] IN
         IF ch = "#"
         THEN IF idx + 1 >= Len(text)
              THEN [error |-> "none", literal |-> "#", next |-> idx + 1]
              ELSE LET nxt == text[idx + 2] IN
                   IF nxt = "#" THEN [error |-> "none", literal |-> "#", next |-> idx + 2]
                   ELSE IF isdigit(nxt)
                        THEN [error |-> "none", literal |-> nxt, next |-> idx + 2]
                        ELSE [error |-> "invalid escape", literal |-> "", next |-> idx]
         ELSE IF isdigit(ch)
              THEN [error |-> "unescaped digit", literal |-> "", next |-> idx]
              ELSE [error |-> "none", literal |-> ch, next |-> idx + 1]

\* Variant: a plain character is returned without moving past it.
unescape_one_no_advance(text, idx) ==
    IF idx >= Len(text)
    THEN [error |-> "unexpected end", literal |-> "", next |-> idx]
    ELSE LET ch == text[idx + 1] IN
         IF ch = "#"
         THEN IF idx + 1 >= Len(text)
              THEN [error |-> "dangling escape", literal |-> "", next |-> idx]
              ELSE LET nxt == text[idx + 2] IN
                   IF nxt = "#" THEN [error |-> "none", literal |-> "#", next |-> idx + 2]
                   ELSE IF isdigit(nxt)
                        THEN [error |-> "none", literal |-> nxt, next |-> idx + 2]
                        ELSE [error |-> "invalid escape", literal |-> "", next |-> idx]
         ELSE IF isdigit(ch)
              THEN [error |-> "unescaped digit", literal |-> "", next |-> idx]
              ELSE [error |-> "none", literal |-> ch, next |-> idx]

\* Variant: a bare digit is accepted as a literal.
unescape_one_digit_literal(text, idx) ==
    IF idx >= Len(text)
    THEN [error |-> "unexpected end", literal |-> "", next |-> idx]
    ELSE LET ch == text[idx + 1] IN
         IF ch = "#"
         THEN IF idx + 1 >= Len(text)
              THEN [error |-> "dangling escape", literal |-> "", next |-> idx]
              ELSE LET nxt == text[idx + 2] IN
                   IF nxt = "#" THEN [error |-> "none", literal |-> "#", next |-> idx + 2]
                   ELSE IF isdigit(nxt)
                        THEN [error |-> "none", literal |-> nxt, next |-> idx + 2]
                        ELSE [error |-> "invalid escape", literal |-> "", next |-> idx]
         ELSE IF FALSE
              THEN [error |-> "unescaped digit", literal |-> "", next |-> idx]
              ELSE [error |-> "none", literal |-> ch, next |-> idx + 1]

\* _unescape_one(s, idx): the literal read at idx and the next index, or the error.
unescape_one(text, idx) ==
    IF idx >= Len(text)
    THEN [error |-> "unexpected end", literal |-> "", next |-> idx]
    ELSE LET ch == text[idx + 1] IN
         IF ch = "#"
         THEN IF idx + 1 >= Len(text)
              THEN [error |-> "dangling escape", literal |-> "", next |-> idx]
              ELSE LET nxt == text[idx + 2] IN
                   IF nxt = "#" THEN [error |-> "none", literal |-> "#", next |-> idx + 2]
                   ELSE IF isdigit(nxt)
                        THEN [error |-> "none", literal |-> nxt, next |-> idx + 2]
                        ELSE [error |-> "invalid escape", literal |-> "", next |-> idx]
         ELSE IF isdigit(ch)
              THEN [error |-> "unescaped digit", literal |-> "", next |-> idx]
              ELSE [error |-> "none", literal |-> ch, next |-> idx + 1]

\* Variant: at most one digit is taken as the count.
scan_count_one_digit(text, j) ==
    IF j < Len(text) /\ isdigit(text[j + 1]) THEN j + 1 ELSE j

\* The inner while loop: the first index j >= from that holds no digit.
RECURSIVE scan_count(_, _)
scan_count(text, j) ==
    IF j < Len(text) /\ isdigit(text[j + 1]) THEN scan_count(text, j + 1) ELSE j

\* Variant: only a negative count is rejected.
count_rejected_negative(count) == count < 0

\* count <= 0 after int(count_str)
count_rejected(count) == count <= 0

Raise(kind) ==
    /\ pc' = "err"
    /\ err' = kind
    /\ UNCHANGED <<s, i, out, result>>

Return(text) ==
    /\ pc' = "done"
    /\ result' = text
    /\ UNCHANGED <<s, i, out, err>>

\* decode_rle up to its while loop.
decode_rle_enter(encoded) ==
    /\ result' = <<>>
    /\ out' = <<>>
    /\ i' = 0
    /\ IF ~startswith(encoded, ENCODED_PREFIX)
       THEN pc' = "err" /\ err' = "missing sentinel" /\ s' = <<>>
       ELSE LET payload == SubSeq(encoded, Len(ENCODED_PREFIX) + 1, Len(encoded)) IN
            /\ s' = payload
            /\ err' = "none"
            /\ pc' = IF payload = <<>> THEN "done" ELSE "loop"

\* One test of the while condition of decode_rle and, when it holds, one
\* iteration of the body; when it does not, the return of the joined output.
decode_rle_step ==
    /\ pc = "loop"
    /\ called = "decode_rle"
    /\ IF i < Len(s)
       THEN LET u == unescape_one(s, i)
                j == scan_count(s, u.next)
                count == IF j = u.next THEN 1 ELSE int(SubSeq(s, u.next + 1, j))
            IN IF u.error # "none" THEN Raise(u.error)
               ELSE IF j # u.next /\ count_rejected(count)
                    THEN /\ pc' = "err"
                         /\ err' = "non-positive count"
                         /\ i' = u.next
                         /\ UNCHANGED <<s, out, result>>
                    ELSE /\ i' = j
                         /\ out' = out \o Repeat(u.literal, count)
                         /\ UNCHANGED <<pc, s, result, err>>
       ELSE Return(out)
    /\ UNCHANGED <<op, arg, called, printed, measure, bmi>>

\* --------------------------------------------------------- legacy decoder
decode_legacy_rle_enter(text) ==
    /\ result' = <<>>
    /\ out' = <<>>
    /\ i' = 0
    /\ err' = "none"
    /\ s' = text
    /\ pc' = IF text = <<>> THEN "done" ELSE "loop"

decode_legacy_rle_step ==
    /\ pc = "loop"
    /\ called = "decode_legacy_rle"
    /\ IF i < Len(s)
       THEN LET ch == s[i + 1]
                j == scan_count(s, i + 1)
                count == IF j = i + 1 THEN 1 ELSE int(SubSeq(s, i + 2, j))
            IN IF isdigit(ch) THEN Raise("count before character")
               ELSE IF j # i + 1 /\ count_rejected(count)
                    THEN /\ pc' = "err"
                         /\ err' = "non-positive count"
                         /\ i' = i + 1
                         /\ UNCHANGED <<s, out, result>>
                    ELSE /\ i' = j
                         /\ out' = out \o Repeat(ch, count)
                         /\ UNCHANGED <<pc, s, result, err>>
       ELSE Return(out)
    /\ UNCHANGED <<op, arg, called, printed, measure, bmi>>

\* ------------------------------------------------------------------ inputs
Texts(n) == UNION {[1..k -> Alphabet] : k \in 0..n}

RunLens == {1, 2} \cup (9..MaxRunLen)
RunLists == UNION {[1..k -> RunChars \X RunLens] : k \in 0..MaxRuns}

RECURSIVE Expand(_)
Expand(runs) == IF runs = <<>> THEN <<>>
                ELSE Repeat(runs[1][1], runs[1][2]) \o Expand(Tail(runs))

RunTexts == {Expand(runs) : runs \in RunLists}
RawTexts == Texts(MaxLen) \cup RunTexts
EncodedTexts == Texts(MaxLen) \cup {ENCODED_PREFIX \o p : p \in Texts(MaxLen)}
Pads == {<<>>, <<" ">>}
Lines == {l \o t \o r : l \in Pads, r \in Pads,
                        t \in Texts(MaxLen - 1) \cup {ENCODED_PREFIX \o p : p \in Texts(MaxLen - 1)}}
Measures == (-MaxMeasure)..MaxMeasure

\* ------------------------------------------------------------------- calls
\* No call is in progress.
Idle == pc = "idle"

\* The call is over: the function has returned or raised (and main, which
\* catches the error, has printed). Nothing of it outlives the call.
Exit ==
    /\ \/ op = "main" /\ pc = "printed"
       \/ op # "main" /\ pc \in {"done", "err"}
    /\ pc' = "idle"
    /\ op' = "none"
    /\ called' = "none"
    /\ arg' = <<>>
    /\ s' = <<>>
    /\ i' = 0
    /\ out' = <<>>
    /\ result' = <<>>
    /\ err' = "none"
    /\ printed' = [label |-> "", text |-> <<>>]
    /\ measure' = <<1, 1>>
    /\ bmi' = <<>>

encode_rle_enter(raw) ==
    /\ pc' = "done"
    /\ result' = encode_rle(raw)
    /\ err' = "none"
    /\ s' = <<>>
    /\ i' = 0
    /\ out' = <<>>

Call_encode_rle(raw) ==
    /\ op' = "encode_rle"
    /\ arg' = raw
    /\ called' = "encode_rle"
    /\ encode_rle_enter(raw)
    /\ UNCHANGED <<printed, measure, bmi>>

Call_decode_rle(encoded) ==
    /\ op' = "decode_rle"
    /\ arg' = encoded
    /\ called' = "decode_rle"
    /\ decode_rle_enter(encoded)
    /\ UNCHANGED <<printed, measure, bmi>>

Call_decode_legacy_rle(text) ==
    /\ op' = "decode_legacy_rle"
    /\ arg' = text
    /\ called' = "decode_legacy_rle"
    /\ decode_legacy_rle_enter(text)
    /\ UNCHANGED <<printed, measure, bmi>>

\* decode_rle(encode_rle(raw)): the decoder entered on the encoder's output.
Call_roundtrip(raw) ==
    /\ op' = "roundtrip"
    /\ arg' = raw
    /\ called' = "decode_rle"
    /\ decode_rle_enter(encode_rle(raw))
    /\ UNCHANGED <<printed, measure, bmi>>

\* Variant: the digit test is made before the prefix test.
main_branch_digits_first(user_input) ==
    IF AnyDigit(user_input) THEN "decode_legacy_rle"
    ELSE IF startswith(user_input, ENCODED_PREFIX) THEN "decode_rle"
    ELSE "encode_rle"

\* The branch main takes on the stripped line.
main_branch(user_input) ==
    IF startswith(user_input, ENCODED_PREFIX) THEN "decode_rle"
    ELSE IF AnyDigit(user_input) THEN "decode_legacy_rle"
    ELSE "encode_rle"

\* main from the prompt to the call it makes.
main(line) ==
    /\ op' = "main"
    /\ arg' = line
    /\ LET user_input == strip(line)
           branch == main_branch(user_input)
       IN /\ called' = branch
          /\ CASE branch = "decode_rle" -> decode_rle_enter(user_input)
               [] branch = "decode_legacy_rle" -> decode_legacy_rle_enter(user_input)
               [] branch = "encode_rle" -> encode_rle_enter(user_input)
    /\ printed' = [label |-> "", text |-> <<>>]
    /\ UNCHANGED <<measure, bmi>>

\* main after the call: the print of the result, or of the caught error.
main_print ==
    /\ op = "main"
    /\ pc \in {"done", "err"}
    /\ pc' = "printed"
    /\ printed' = IF pc = "err" THEN [label |-> "Error:", text |-> <<err>>]
                  ELSE IF called = "decode_rle"
                       THEN [label |-> "Detected encoded format (##00). Decoded:", text |-> result]
                  ELSE IF called = "decode_legacy_rle"
                       THEN [label |-> "Detected digits (assumed RLE). Decoded:", text |-> result]
                  ELSE [label |-> "Encoded:", text |-> result]
    /\ UNCHANGED <<op, arg, called, s, i, out, result, err, measure, bmi>>

\* -------------------------------------------------------------------- bmi
\* round(num / den, 0) to the nearest integer, ties to even (num >= 0, den > 0).
RoundHalfEven(num, den) ==
    LET q == num \div den
        r == num % den
    IN IF 2 * r < den THEN q
       ELSE IF 2 * r > den THEN q + 1
       ELSE IF q % 2 = 0 THEN q ELSE q + 1

\* Variant: a weight of zero is let through.
weight_rejected_negative(weight) == weight < 0

height_rejected(height) == height <= 0
weight_rejected(weight) == weight <= 0

\* calculate_bmi of Week6/bmi.py; the value returned is kept in hundredths.
calculate_bmi(weight, height) ==
    /\ op' = "calculate_bmi"
    /\ called' = "calculate_bmi"
    /\ measure' = <<weight, height>>
    /\ IF height_rejected(height)
       THEN pc' = "err" /\ err' = "Height must be greater than zero." /\ bmi' = <<>>
       ELSE IF weight_rejected(weight)
            THEN pc' = "err" /\ err' = "Weight must be greater than zero." /\ bmi' = <<>>
            ELSE /\ pc' = "done"
                 /\ err' = "none"
                 /\ bmi' = <<RoundHalfEven(weight * 703 * 100, height * height)>>
    /\ arg' = <<>>
    /\ s' = <<>>
    /\ i' = 0
    /\ out' = <<>>
    /\ result' = <<>>
    /\ UNCHANGED printed

\* ---------------------------------------------------------- specification
Init ==
    /\ op = "none"
    /\ arg = <<>>
    /\ called = "none"
    /\ pc = "idle"
    /\ s = <<>>
    /\ i = 0
    /\ out = <<>>
    /\ result = <<>>
    /\ err = "none"
    /\ printed = [label |-> "", text |-> <<>>]
    /\ measure = <<1, 1>>
    /\ bmi = <<>>

\* One call at a time: an operation is entered only when none is in progress.
Next ==
    \/ Idle /\ \E raw \in RawTexts : Call_encode_rle(raw)
    \/ Idle /\ \E encoded \in EncodedTexts : Call_decode_rle(encoded)
    \/ Idle /\ \E text \in Texts(MaxLen) : Call_decode_legacy_rle(text)
    \/ Idle /\ \E raw \in RawTexts : Call_roundtrip(raw)
    \/ Idle /\ \E line \in Lines : main(line)
    \/ Idle /\ \E weight \in Measures, height \in Measures : calculate_bmi(weight, height)
    \/ main_print
    \/ decode_rle_step
    \/ decode_legacy_rle_step
    \/ Exit

Spec == Init /\ [][Next]_vars

\* The two decoders alone, on every text of the input sets.
DecoderNext ==
    \/ Idle /\ \E encoded \in EncodedTexts : Call_decode_rle(encoded)
    \/ Idle /\ \E text \in Texts(MaxLen) : Call_decode_legacy_rle(text)
    \/ decode_rle_step
    \/ decode_legacy_rle_step
    \/ Exit

\* The decoders under the scheduling of a sequential program: a loop that can
\* take its next iteration takes it.
FairSpec ==
    /\ Init
    /\ [][DecoderNext]_vars
    /\ WF_vars(decode_rle_step)
    /\ WF_vars(decode_legacy_rle_step)

\* ------------------------------------------------------------- properties
Decoders == {"decode_rle", "decode_legacy_rle"}
Finished == pc \in {"done", "err", "printed"}
Failed == err # "none"

\* C1: decode_rle(encode_rle(r)) returns exactly r and raises no error, for
\* every raw text r over letters, digits and '#'.
C1_RoundTrip ==
    op = "roundtrip" =>
        /\ ~Failed
        /\ pc # "err"
        /\ pc = "done" => result = arg

\* A round trip of a text of ten or more characters that holds a digit and a '#'.
C1_Witness ==
    /\ op = "roundtrip"
    /\ pc = "done"
    /\ result = arg
    /\ Len(arg) >= 10
    /\ \E k \in 1..Len(arg) : isdigit(arg[k])
    /\ \E k \in 1..Len(arg) : arg[k] = "#"

\* The last index of the maximal run of r that starts at k.
RunEnd(r, k) ==
    CHOOSE m \in k..Len(r) :
        /\ \A x \in k..m : r[x] = r[k]
        /\ m = Len(r) \/ r[m + 1] # r[k]

\* One token per maximal run from k on: the escaped character, then the run
\* length in decimal if and only if it is >= 2.
RECURSIVE CanonicalFrom(_, _)
CanonicalFrom(r, k) ==
    IF k > Len(r) THEN <<>>
    ELSE LET n == RunEnd(r, k) - k + 1 IN
         escape_literal_char(r[k]) \o (IF n >= 2 THEN str(n) ELSE <<>>)
             \o CanonicalFrom(r, RunEnd(r, k) + 1)

\* The tokens of a payload as a reader of the format sees them: each the
\* literal and the digits that follow it.
RECURSIVE TokensFrom(_, _)
TokensFrom(payload, k) ==
    IF k >= Len(payload) THEN <<>>
    ELSE LET n == IF payload[k + 1] = "#" THEN k + 2 ELSE k + 1
             j == CHOOSE m \in n..Len(payload) :
                      /\ \A x \in (n + 1)..m : isdigit(payload[x])
                      /\ m = Len(payload) \/ ~isdigit(payload[m + 1])
         IN <<[literal |-> payload[n], digits |-> SubSeq(payload, n + 1, j)]>>
                \o TokensFrom(payload, j)

\* The value of a string of decimal digits, most significant first.
RECURSIVE DecimalValue(_)
DecimalValue(ds) ==
    IF ds = <<>> THEN 0
    ELSE DigitValue(Head(ds)) * (10 ^ (Len(ds) - 1)) + DecimalValue(Tail(ds))

\* C2: the output of encode_rle after the prefix is exactly one token per
\* maximal run of the raw text, in order, with the run length written if and
\* only if it is >= 2; no count below 2 is emitted and adjacent tokens carry
\* different characters.
C2_CanonicalForm ==
    (called = "encode_rle" /\ op = "encode_rle" /\ pc = "done") =>
        /\ result = ENCODED_PREFIX \o CanonicalFrom(arg, 1)
        /\ LET tokens == TokensFrom(SubSeq(result, 5, Len(result)), 0) IN
           /\ \A k \in 1..Len(tokens) :
                  tokens[k].digits = <<>> \/ DecimalValue(tokens[k].digits) >= 2
           /\ \A k \in 1..(Len(tokens) - 1) :
                  tokens[k].literal # tokens[k + 1].literal

\* An encoding of a text with a run of ten or more, a single character and a digit.
C2_Witness ==
    /\ op = "encode_rle"
    /\ pc = "done"
    /\ \E k \in 1..Len(arg) : RunEnd(arg, k) - k + 1 >= 10
    /\ \E k \in 1..Len(arg) : isdigit(arg[k]) /\ RunEnd(arg, k) = k
                                 /\ (k = 1 \/ arg[k - 1] # arg[k])

\* C3: encode_rle(r) starts with "##00" for every r (and is exactly "##00"
\* for the empty r), so is_probably_encoded answers True on it.
C3_PrefixInvariant ==
    (called = "encode_rle" /\ pc = "done") =>
        /\ startswith(result, ENCODED_PREFIX)
        /\ is_probably_encoded(result)
        /\ strip(arg) = <<>> => result = ENCODED_PREFIX

\* The encoding of the empty text.
C3_Witness ==
    /\ op = "encode_rle"
    /\ pc = "done"
    /\ arg = <<>>
    /\ result = ENCODED_PREFIX

\* C4: main runs exactly one operation on the stripped line: decode_rle if it
\* starts with "##00", else decode_legacy_rle if it holds a digit, else
\* encode_rle; it decodes exactly when is_probably_encoded is True.
C4_DispatchOrder ==
    op = "main" =>
        LET text == strip(arg) IN
        /\ startswith(text, ENCODED_PREFIX) => called = "decode_rle"
        /\ (~startswith(text, ENCODED_PREFIX) /\ AnyDigit(text)) => called = "decode_legacy_rle"
        /\ (~startswith(text, ENCODED_PREFIX) /\ ~AnyDigit(text)) => called = "encode_rle"
        /\ (called \in Decoders) <=> is_probably_encoded(text)
        /\ (pc = "printed" /\ printed.label = "Encoded:") => called = "encode_rle"

\* main has decoded a padded line that starts with the prefix and holds
\* further digits, with the structured decoder.
C4_Witness ==
    /\ op = "main"
    /\ pc = "printed"
    /\ called = "decode_rle"
    /\ arg # strip(arg)
    /\ AnyDigit(s)
    /\ printed.label = "Detected encoded format (##00). Decoded:"

\* The number of '#' that end the text.
RECURSIVE TrailingHashes(_)
TrailingHashes(text) ==
    IF Len(text) > 0 /\ text[Len(text)] = "#"
    THEN 1 + TrailingHashes(SubSeq(text, 1, Len(text) - 1))
    ELSE 0

\* decode_rle has run on a payload (the text after the prefix) and is over.
DecodedPayload ==
    /\ called = "decode_rle"
    /\ Finished
    /\ err # "missing sentinel"

\* C5 as stated: decode_rle fails, returning no text, if a '#' is the last
\* character of the payload. (The error kind is left open here, so that an
\* earlier error in the payload does not count against the statement.)
C5_AnyFinalHash ==
    (DecodedPayload /\ Len(s) > 0 /\ s[Len(s)] = "#") =>
        /\ Failed
        /\ pc # "done"
        /\ result = <<>>

\* C5 amended: decode_rle fails, returning no text, when the payload ends in
\* an odd number of '#' (its last '#' is not the second character of a "##"
\* escape); the error is "dangling escape" exactly when the '#' read at a
\* literal position is the last character of the payload, and a payload that
\* ends in an even number of '#' is never rejected as dangling.
C5_DanglingEscape ==
    DecodedPayload =>
        /\ TrailingHashes(s) % 2 = 1 => (Failed /\ result = <<>>)
        /\ err = "dangling escape" <=>
               (Failed /\ Len(s) > 0 /\ i = Len(s) - 1 /\ s[Len(s)] = "#")
        /\ err = "dangling escape" => (TrailingHashes(s) % 2 = 1 /\ result = <<>>)

\* Earlier tokens were decoded, then the final '#' dangled: nothing is returned.
C5_Witness ==
    /\ op = "decode_rle"
    /\ pc = "err"
    /\ err = "dangling escape"
    /\ out # <<>>
    /\ result = <<>>

\* A literal can be read at index k (zero-based) of the text by the decoder
\* `which`, and the digits that follow it are the next index on.
LiteralAt(which, text, k) ==
    /\ k < Len(text)
    /\ IF which = "decode_rle"
       THEN \/ text[k + 1] # "#" /\ ~isdigit(text[k + 1])
            \/ /\ text[k + 1] = "#"
               /\ k + 1 < Len(text)
               /\ text[k + 2] = "#" \/ isdigit(text[k + 2])
       ELSE ~isdigit(text[k + 1])

AfterLiteral(which, text, k) ==
    IF which = "decode_rle" /\ text[k + 1] = "#" THEN k + 2 ELSE k + 1

\* The maximal run of digits from index n on is not empty and holds only '0'.
ZeroCountAt(text, n) ==
    /\ n < Len(text)
    /\ text[n + 1] = "0"
    /\ \A m \in (n + 1)..Len(text) :
           (\A x \in (n + 1)..m : isdigit(text[x])) => text[m] = "0"

\* C6: when the digits consumed after a literal have the value 0, wherever
\* the token stands, decode_rle and decode_legacy_rle fail with "non-positive
\* count" and return nothing of the output built so far.
C6_ZeroCount ==
    [][(/\ pc = "loop"
        /\ called \in Decoders
        /\ LiteralAt(called, s, i)
        /\ ZeroCountAt(s, AfterLiteral(called, s, i)))
       => (/\ pc' = "err"
           /\ err' = "non-positive count"
           /\ result' = <<>>)]_vars

\* decode_rle met the count "00" after it had decoded an earlier token.
C6_Witness ==
    /\ op = "decode_rle"
    /\ pc = "err"
    /\ err = "non-positive count"
    /\ out # <<>>
    /\ result = <<>>
    /\ Len(s) >= 2
    /\ s[Len(s)] = "0"
    /\ s[Len(s) - 1] = "0"

\* The count that follows position p (one-based) of a legacy text: the value
\* of the maximal run of digits after it, 1 when there is none.
LegacyCount(text, p) ==
    LET m == CHOOSE e \in p..Len(text) :
                 /\ \A x \in (p + 1)..e : isdigit(text[x])
                 /\ e = Len(text) \/ ~isdigit(text[e + 1])
    IN IF m = p THEN 1 ELSE DecimalValue(SubSeq(text, p + 1, m))

\* Each non-digit character repeated by its count, in order.
RECURSIVE LegacyExpansion(_, _)
LegacyExpansion(text, p) ==
    IF p > Len(text) THEN <<>>
    ELSE IF isdigit(text[p]) THEN LegacyExpansion(text, p + 1)
    ELSE Repeat(text[p], LegacyCount(text, p)) \o LegacyExpansion(text, p + 1)

\* Groups of a non-digit character and an optional count >= 1.
LegacyWellFormed(text) ==
    /\ text = <<>> \/ ~isdigit(text[1])
    /\ \A p \in 1..Len(text) : ~isdigit(text[p]) => LegacyCount(text, p) >= 1

\* C7: on groups <non-digit><optional count >= 1> decode_legacy_rle returns
\* each character repeated count times, in order, '#' being an ordinary
\* character; it fails with "count before character" when a digit stands
\* where the first character of a run is expected.
C7_LegacyDecode ==
    (called = "decode_legacy_rle" /\ Finished) =>
        /\ LegacyWellFormed(s) => (~Failed /\ result = LegacyExpansion(s, 1))
        /\ (s # <<>> /\ isdigit(s[1])) =>
               (err = "count before character" /\ result = <<>>)

\* A legacy text with '#' as a character, a count of two digits and a
\* character without a count.
C7_Witness ==
    /\ op = "decode_legacy_rle"
    /\ pc = "done"
    /\ Len(s) = 4
    /\ s[1] = "#"
    /\ isdigit(s[2]) /\ isdigit(s[3])
    /\ ~isdigit(s[4])
    /\ Len(result) >= 11

\* C8: calculate_bmi raises ValueError, returning no value, whenever
\* height <= 0 or weight <= 0, the height being checked first, and returns a
\* value only when both are strictly positive.
C8_BmiGuard ==
    op = "calculate_bmi" =>
        LET weight == measure[1]
            height == measure[2]
        IN /\ (height <= 0 \/ weight <= 0) <=> pc = "err"
           /\ pc = "err" => bmi = <<>>
           /\ height <= 0 => err = "Height must be greater than zero."
           /\ (height > 0 /\ weight <= 0) => err = "Weight must be greater than zero."
           /\ (pc = "done" /\ bmi # <<>>) <=> (weight > 0 /\ height > 0)

\* Both arguments are rejected and the height is the one reported.
C8_Witness ==
    /\ op = "calculate_bmi"
    /\ pc = "err"
    /\ measure[1] < 0
    /\ measure[2] = 0
    /\ err = "Height must be greater than zero."

\* C9: both decoders terminate: an iteration of the scanning loop raises or
\* strictly increases the read index, the index never exceeds the length of
\* the text, "unexpected end" is never raised, and every call that enters the
\* loop ends with a result or an error.
C9_Termination ==
    /\ [](called \in Decoders => (i <= Len(s) /\ err # "unexpected end"))
    /\ [][(pc = "loop" /\ i < Len(s)) => (pc' = "err" \/ i' > i)]_vars
    /\ (pc = "loop") ~> (pc \in {"done", "err"})

\* decode_rle has read a payload of three or more characters to its end.
C9_Witness ==
    /\ op = "decode_rle"
    /\ pc = "done"
    /\ Len(s) >= 3
    /\ i = Len(s)
    /\ Len(out) > Len(s)

\* C10: decode_rle raises "unescaped digit" if and only if the payload after
\* "##00" starts with a digit, and decode_legacy_rle raises "count before
\* character" if and only if its text starts with a digit; both are raised at
\* index 0 only, a digit further on being read as part of a count.
C10_BareDigit ==
    Finished =>
        /\ called = "decode_rle" =>
               /\ err = "unescaped digit" <=> (s # <<>> /\ isdigit(s[1]))
               /\ err = "unescaped digit" => (i = 0 /\ out = <<>>)
               /\ op = "decode_rle" =>
                      (err = "unescaped digit" <=>
                           (startswith(arg, ENCODED_PREFIX) /\ Len(arg) > 4 /\ isdigit(arg[5])))
        /\ called = "decode_legacy_rle" =>
               /\ err = "count before character" <=> (s # <<>> /\ isdigit(s[1]))
               /\ err = "count before character" => (i = 0 /\ out = <<>>)
        /\ called \notin Decoders => err \notin {"unescaped digit", "count before character"}
        /\ called # "decode_rle" => err # "unescaped digit"
        /\ called # "decode_legacy_rle" => err # "count before character"

\* decode_rle has read bare digits after the first literal as a count, with
\* no error.
C10_Witness ==
    /\ op = "decode_rle"
    /\ pc = "done"
    /\ Len(s) >= 3
    /\ ~isdigit(s[1])
    /\ isdigit(s[2]) /\ isdigit(s[3])
    /\ s[1] # "#"

====
